---------------------------- MODULE Spec2Model ----------------------------
(***************************************************************************)
(* A model of gitfs.py: the read-only FUSE view of a git repository's      *)
(* references and of the trees their commits point to.                     *)
(*                                                                         *)
(* Strings are sequences of one-character strings, so that startswith,     *)
(* slicing, concatenation and split work on characters as they do in the   *)
(* Python source ("/a" is a character prefix of "/ab").  Byte strings are  *)
(* sequences of numbers.  The object store (commits, trees, blobs) is a    *)
(* fixed, immutable table; the reference table is the mutable state of the *)
(* backing repository.  References point directly at commits.              *)
(***************************************************************************)
EXTENDS Integers, Sequences, FiniteSets, TLC

(* ------------------------------ bounds -------------------------------- *)

\* Longest path handed to an operation, in segments.
MaxDepth == 3
\* Most references the repository holds at a time.
MaxRefs == 3
\* Largest size argument of read; offsets run one further.
MaxSize == 2
\* Longest relative path handed to git_tree_find on its own, in segments.
MaxRelDepth == 3
\* Most repository mutations that land inside one in-flight call.
MaxMutations == 1

(* ------------------------- program constants -------------------------- *)

\* stat.S_IFDIR, 0040000
S_IFDIR == 16384
\* The write bits 0222 that copy_stat removes.
WriteBits == 146
\* os.O_RDONLY
O_RDONLY == 0

(* ------------------------------ strings ------------------------------- *)

Slash == <<"/">>
Root == <<"/">>
RefsWord == <<"r", "e", "f", "s">>

Min(a, b) == IF a <= b THEN a ELSE b

Range(s) == {s[i] : i \in DOMAIN s}

\* str.startswith
StartsWith(s, prefix) ==
    /\ Len(prefix) <= Len(s)
    /\ SubSeq(s, 1, Len(prefix)) = prefix

\* s[n:] for n >= 0
SliceFrom(s, n) == SubSeq(s, Min(n, Len(s)) + 1, Len(s))

\* A slice that takes the upper index as inclusive.
Slice_inclusive(s, lo, hi) == SubSeq(s, Min(lo, Len(s)) + 1, Min(hi + 1, Len(s)))

\* s[lo:hi] for lo, hi >= 0
Slice(s, lo, hi) == SubSeq(s, Min(lo, Len(s)) + 1, Min(hi, Len(s)))

\* Position of the first "/" in s, or 0 when there is none.
RECURSIVE FindSlash(_, _)
FindSlash(s, i) ==
    IF i > Len(s) THEN 0
    ELSE IF s[i] = "/" THEN i
    ELSE FindSlash(s, i + 1)

\* str.split('/'): every piece between slashes, empty pieces kept.
RECURSIVE Split(_)
Split(s) ==
    LET k == FindSlash(s, 1) IN
    IF k = 0 THEN <<s>>
    ELSE <<SubSeq(s, 1, k - 1)>> \o Split(SubSeq(s, k + 1, Len(s)))

\* str.split('/', 1)[0]: the piece before the first slash.
SplitFirst(s) ==
    LET k == FindSlash(s, 1) IN
    IF k = 0 THEN s ELSE SubSeq(s, 1, k - 1)

\* Bitwise and of two naturals.
RECURSIVE BitAnd(_, _)
BitAnd(a, b) ==
    IF a = 0 \/ b = 0 THEN 0
    ELSE (a % 2) * (b % 2) + 2 * BitAnd(a \div 2, b \div 2)

\* a & ~mask
BitClear(a, mask) == a - BitAnd(a, mask)

\* Some enumeration of a finite set as a list.
SetToSeq(S) == CHOOSE s \in [1..Cardinality(S) -> S] : Range(s) = S

\* list(frozenset(xs)): the distinct elements, in any order.
Orderings(S) ==
    {s \in [1..Cardinality(S) -> S] : Range(s) = S}

(* --------------------------- the universe ----------------------------- *)

\* Path segments: "a", "ab" (of which "a" is a character prefix), ".a".
Segs == { <<"a">>, <<"a", "b">>, <<".", "a">> }

SeqsUpTo(S, n) == UNION {[1..k -> S] : k \in 1..n}

RECURSIVE JoinSegs(_)
JoinSegs(ss) ==
    IF ss = <<>> THEN <<>>
    ELSE Slash \o Head(ss) \o JoinSegs(Tail(ss))

\* Absolute paths without a trailing slash, and the root.
Paths == {Root} \cup {JoinSegs(ss) : ss \in SeqsUpTo(Segs, MaxDepth)}

\* Relative paths inside a tree: a/b/c.
RelPaths == {SliceFrom(JoinSegs(ss), 1) : ss \in SeqsUpTo(Segs, MaxRelDepth)}

\* Reference names below refs/: /a and /a/a (one a directory-prefix of the
\* other), /ab (of which /a is a character prefix only), /a/ab, /ab/a.  No
\* component of a reference name begins with a dot: git's reference-name
\* rules refuse such names, and lookup_reference does not resolve them.
RefNames ==
    { JoinSegs(<< <<"a">> >>), JoinSegs(<< <<"a", "b">> >>),
      JoinSegs(<< <<"a">>, <<"a">> >>), JoinSegs(<< <<"a">>, <<"a", "b">> >>),
      JoinSegs(<< <<"a", "b">>, <<"a">> >>) }

\* Names as the backing store lists them: refs/a, refs/a/ab, ...
FullRefNames == {RefsWord \o n : n \in RefNames}

\* The subsets of S with at most k elements.
RECURSIVE SubsetsUpTo(_, _)
SubsetsUpTo(S, k) ==
    IF k = 0 THEN {{}}
    ELSE LET smaller == SubsetsUpTo(S, k - 1) IN
         smaller \cup {s \cup {x} : s \in smaller, x \in S}


(* -------------------------- the object store -------------------------- *)

\* What pygit2 hands back for an object id: commits, trees (ordered entries
\* of name, filemode, oid) and blobs (bytes).  File modes: 0100644 = 33188,
\* 0100755 = 33261, 0100664 = 33204, 0120000 = 40960, 0040000 = 16384.
Objects ==
    [ c1 |-> [type |-> "commit", tree |-> "t1"],
      c2 |-> [type |-> "commit", tree |-> "t2"],
      t1 |-> [type |-> "tree",
              entries |-> << [name |-> <<".", "a">>, filemode |-> 33204, oid |-> "b3"],
                             [name |-> <<"a">>, filemode |-> 16384, oid |-> "t3"],
                             [name |-> <<"a", "b">>, filemode |-> 33261, oid |-> "b1"] >>],
      t2 |-> [type |-> "tree",
              entries |-> << [name |-> <<"a">>, filemode |-> 40960, oid |-> "b2"],
                             [name |-> <<"a", "b">>, filemode |-> 16384, oid |-> "t1"] >>],
      t3 |-> [type |-> "tree",
              entries |-> << [name |-> <<"a">>, filemode |-> 33188, oid |-> "b1"] >>],
      b1 |-> [type |-> "blob", data |-> <<10, 20>>],
      b2 |-> [type |-> "blob", data |-> <<>>],
      b3 |-> [type |-> "blob", data |-> <<30>>] ]

CommitIds == {"c1", "c2"}
TreeIds == {"t1", "t2", "t3"}

\* The reference tables the backing repository can hold: full name -> commit.
RefTables == UNION {[D -> CommitIds] : D \in SubsetsUpTo(FullRefNames, MaxRefs)}

\* os.lstat(self.repo.path): the metadata of the repository's own directory
\* (modes 040755 = 16877 and 040777 = 16895).
HostStats ==
    { [st_mode |-> 16877, st_ino |-> 7, st_dev |-> 1, st_nlink |-> 2,
       st_uid |-> 0, st_gid |-> 0, st_size |-> 4, st_atime |-> 1,
       st_mtime |-> 1, st_ctime |-> 1],
      [st_mode |-> 16895, st_ino |-> 9, st_dev |-> 1, st_nlink |-> 3,
       st_uid |-> 1, st_gid |-> 1, st_size |-> 6, st_atime |-> 2,
       st_mtime |-> 2, st_ctime |-> 2] }

(* ------------------------------ outcomes ------------------------------ *)

\* A call either returns a value or raises.  A returned FuseOSError object
\* (return FuseOSError(...)) is a return of type "FuseOSError".
Return(type, val) == [kind |-> "return", type |-> type, val |-> val]
Raise(exc, errno) == [kind |-> "raise", exc |-> exc, errno |-> errno]

ENOENT == Raise("FuseOSError", "ENOENT")
GitFSError == Raise("GitFSError", "none")
KeyError == Raise("KeyError", "none")
TypeError == Raise("TypeError", "none")
AttributeError == Raise("AttributeError", "none")

(* --------------------------- module helpers --------------------------- *)

\* result._replace(**kwargs)
Replace(st, kwargs) ==
    [f \in DOMAIN st |-> IF f \in DOMAIN kwargs THEN kwargs[f] ELSE st[f]]

\* copy_stat with the two _replace calls in the other order: the caller's
\* st_mode and st_ino are applied after the clearing.
copy_stat_kwargs_last(st, kwargs) ==
    Replace(Replace(st, [st_ino |-> 0, st_mode |-> BitClear(st.st_mode, WriteBits)]),
            kwargs)

copy_stat(st, kwargs) ==
    LET result == Replace(st, kwargs) IN
    Replace(result, [st_ino |-> 0, st_mode |-> BitClear(result.st_mode, WriteBits)])

\* [entry.name for entry in tree]
git_tree_to_direntries(tree) ==
    [i \in DOMAIN tree.entries |-> tree.entries[i].name]

\* obj[name]: a Tree gives the entry of that name or raises KeyError; a Blob
\* is not subscriptable and raises TypeError.
GetItem(obj, name) ==
    IF obj.type # "tree" THEN TypeError
    ELSE LET hits == SelectSeq(obj.entries, LAMBDA e : e.name = name) IN
         IF hits = <<>> THEN KeyError ELSE Return("entry", hits[1])

\* entry.to_object()
to_object(entry) == Objects[entry.oid]

\* reduce(lambda t, part: t[part].to_object() if t is not None else None,
\*        parts, tree): the object reached, None, or the exception raised.
RECURSIVE Reduce(_, _)
Reduce(acc, parts) ==
    IF parts = <<>> \/ acc.kind = "raise" THEN acc
    ELSE IF acc.type = "None" THEN Reduce(acc, Tail(parts))
    ELSE LET got == GetItem(acc.val, Head(parts)) IN
         IF got.kind = "raise" THEN got
         ELSE Reduce(Return("object", to_object(got.val)), Tail(parts))

\* git_tree_find(tree, path): Return("entry", e), Return("None", ..) or the
\* exception that escapes.
git_tree_find(tree, path) ==
    LET parts == Split(path)
        walked == Reduce(Return("object", tree), SubSeq(parts, 1, Len(parts) - 1))
    IN  IF walked.kind = "raise" THEN walked
        ELSE LET got == IF walked.type = "None" THEN TypeError
                        ELSE GetItem(walked.val, parts[Len(parts)])
             IN  IF got.kind = "raise" THEN Return("None", "None") ELSE got

(* ------------------------- reference catalog -------------------------- *)

\* self.repo.listall_references()
listall_references(table) == SetToSeq(DOMAIN table)

\* [r[4:] for r in listall_references() if r.startswith('refs/')]
refs(table) ==
    LET listed == SelectSeq(listall_references(table),
                            LAMBDA r : StartsWith(r, RefsWord \o Slash))
    IN  [i \in DOMAIN listed |-> SliceFrom(listed[i], 4)]

\* get_parent_ref: the one reference r with path.startswith(r + '/').
get_parent_ref(path, table) ==
    LET matches == SelectSeq(refs(table), LAMBDA r : StartsWith(path, r \o Slash)) IN
    IF Len(matches) # 1 THEN ENOENT ELSE Return("str", matches[1])

\* get_child_refs: the references r with r.startswith(path).
get_child_refs(path, table) ==
    SelectSeq(refs(table), LAMBDA r : StartsWith(r, path))

\* self.repo.lookup_reference(name): the reference, or KeyError.
lookup_reference(name, table) ==
    IF name \notin DOMAIN table THEN KeyError
    ELSE Return("reference", [name |-> name, oid |-> table[name]])

\* get_reference_commit: lookup_reference('refs' + ref_name), self.repo[ref.oid]
get_reference_commit(ref_name, table) ==
    LET ref == lookup_reference(RefsWord \o ref_name, table) IN
    IF ref.kind = "raise" THEN ref
    ELSE Return("object", Objects[ref.val.oid])

\* entry.filemode & stat.S_IFDIR == stat.S_IFDIR
IsDir(entry) == BitAnd(entry.filemode, S_IFDIR) = S_IFDIR

\* Python's IndexError, raised by p[1] on a list of one element.
IndexError == Raise("IndexError", "none")

\* list(xs): the elements as collected, repeats kept.
list_plain(xs) == {Return("list", xs)}

\* list(frozenset(xs)): the distinct elements of xs, in an unspecified order.
list_frozenset(xs) == {Return("list", o) : o \in Orderings(Range(xs))}

(* ---------------------------- the handlers ---------------------------- *)

\* Every access to the backing repository's references is a parameter of
\* its own (t1, t2, ...: the reference table as that access finds it), in
\* the order the code makes them; a call that runs with no mutation under
\* it passes the same table for each.

NoKwargs == <<>>
DotPrefix == <<"/", ".">>

\* getattr.  t1: self.refs in get_child_refs; t2: self.refs in
\* get_parent_ref; t3: lookup_reference in get_reference_commit.
getattr(path, repo_stat, t1, t2, t3) ==
    IF StartsWith(path, DotPrefix) THEN ENOENT
    ELSE
    LET default_stat == copy_stat(repo_stat, NoKwargs) IN
    IF path = Root \/ get_child_refs(path, t1) # <<>>
    THEN Return("stat", default_stat)
    ELSE
    LET parent == get_parent_ref(path, t2) IN
    IF parent.kind = "raise" THEN parent
    ELSE
    LET commit == get_reference_commit(parent.val, t3) IN
    IF commit.kind = "raise" THEN commit
    ELSE
    LET entry == git_tree_find(Objects[commit.val.tree],
                               SliceFrom(path, Len(parent.val) + 1))
    IN
    IF entry.kind = "raise" THEN entry
    ELSE IF entry.type = "None" THEN ENOENT
    ELSE IF IsDir(entry.val) THEN Return("stat", default_stat)
    ELSE
    LET blob == Objects[entry.val.oid]
        size == Len(blob.data)
    IN  Return("stat", copy_stat(repo_stat,
                   [st_size |-> size, st_mode |-> entry.val.filemode]))

\* The commit a reference of the snapshot points to, looked up live:
\* self.repo.lookup_reference('refs' + ref_name), self.repo[ref.oid].
\* (ref.resolve() on a direct reference is the reference itself.)
ref_commit(ref_name, table) ==
    LET ref == lookup_reference(RefsWord \o ref_name, table) IN
    IF ref.kind = "raise" THEN ref
    ELSE Return("object", Objects[ref.val.oid])

\* readdir: the set of results it may give (the order of a frozenset's
\* elements is unspecified).  t1: refs = self.refs; t2: lookup_reference.
readdir(path, t1, t2) ==
    LET refs_ == refs(t1) IN
    IF path = Root THEN
        LET parts == [i \in DOMAIN refs_ |-> Split(refs_[i])] IN
        IF \E i \in DOMAIN parts : Len(parts[i]) < 2 THEN {IndexError}
        ELSE list_frozenset([i \in DOMAIN parts |-> parts[i][2]])
    ELSE
    LET matching == SelectSeq(refs_, LAMBDA r : StartsWith(r, path \o Slash)) IN
    IF matching # <<>> THEN
        LET path_len == Len(path) + 1
            longer == SelectSeq(matching, LAMBDA r : Len(r) > path_len)
        IN  list_frozenset([i \in DOMAIN longer |->
                               SplitFirst(SliceFrom(longer[i], path_len))])
    ELSE IF path \in Range(refs_) THEN
        LET commit == ref_commit(path, t2) IN
        IF commit.kind = "raise" THEN {commit}
        ELSE {Return("list", git_tree_to_direntries(Objects[commit.val.tree]))}
    ELSE
    LET inside == SelectSeq(refs_, LAMBDA r : StartsWith(path, r \o Slash)) IN
    IF Len(inside) = 1 THEN
        LET ref_name == inside[1]
            commit == ref_commit(ref_name, t2)
        IN
        IF commit.kind = "raise" THEN {commit}
        ELSE
        LET file_path == SliceFrom(path, Len(ref_name) + 1)
            entry == git_tree_find(Objects[commit.val.tree], file_path)
        IN
        IF entry.kind = "raise" THEN {entry}
        ELSE IF entry.type = "None" THEN {ENOENT}
        ELSE IF IsDir(entry.val)
             THEN {Return("list", git_tree_to_direntries(Objects[entry.val.oid]))}
             ELSE {Return("list", <<>>)}
    ELSE IF Len(inside) > 1 THEN {GitFSError}
    ELSE {Return("list", <<>>)}

\* open: both failures are returned, not raised.
open(path, flags) ==
    IF StartsWith(path, DotPrefix) THEN Return("FuseOSError", "ENOENT")
    ELSE IF BitAnd(flags, O_RDONLY) # O_RDONLY THEN Return("FuseOSError", "EACCES")
    ELSE Return("int", 0)

\* read.  t1: refs = self.refs; t2: lookup_reference.
read(path, size, offset, t1, t2) ==
    IF StartsWith(path, DotPrefix) THEN Return("FuseOSError", "ENOENT")
    ELSE
    LET refs_ == refs(t1)
        matching == SelectSeq(refs_, LAMBDA r : StartsWith(path, r \o Slash))
    IN
    IF Len(matching) = 1 THEN
        LET ref_name == matching[1]
            commit == ref_commit(ref_name, t2)
        IN
        IF commit.kind = "raise" THEN commit
        ELSE
        LET file_path == SliceFrom(path, Len(ref_name) + 1)
            entry == git_tree_find(Objects[commit.val.tree], file_path)
        IN
        IF entry.kind = "raise" THEN entry
        ELSE IF entry.type = "None" THEN Return("FuseOSError", "ENOENT")
        ELSE
        LET blob == to_object(entry.val) IN
        IF blob.type # "blob" THEN AttributeError
        ELSE IF offset = 0 /\ Len(blob.data) <= size THEN Return("bytes", blob.data)
        ELSE Return("bytes", Slice(blob.data, offset, offset + size))
    ELSE IF Len(matching) > 1 THEN GitFSError
    ELSE Return("FuseOSError", "ENOENT")

(* ------------------------------- state -------------------------------- *)

VARIABLES
    ref_table,   \* the backing repository's references: full name -> commit id
    call,        \* the call being served, or NoCall
    result,      \* its outcome, Pending while it runs, NoResult when idle
    reads,       \* the reference tables the running call has read so far
    history,     \* the reference tables that existed while the call ran
    found        \* the last git_tree_find evaluated on its own

vars == <<ref_table, call, result, reads, history, found>>

NoStat ==
    [st_mode |-> 0, st_ino |-> 0, st_dev |-> 0, st_nlink |-> 0, st_uid |-> 0,
     st_gid |-> 0, st_size |-> 0, st_atime |-> 0, st_mtime |-> 0, st_ctime |-> 0]

NoCall ==
    [op |-> "none", path |-> <<>>, flags |-> 0, size |-> 0, offset |-> 0,
     repo_stat |-> NoStat]
NoResult == [kind |-> "none"]
Pending == [kind |-> "pending"]
NoFind == [tree |-> "none", path |-> <<>>, outcome |-> NoResult]
EmptyTable == [n \in {} |-> "c1"]

\* The flags the kernel hands to open: an access mode in the two low bits
\* (O_RDONLY = 0, O_WRONLY = 1, O_RDWR = 2), alone or with O_LARGEFILE
\* (0100000 = 32768).
OpenFlags == {0, 1, 2, 32768, 32769}
Sizes == 0..MaxSize
Offsets == 0..(MaxSize + 1)

GetattrCall(path, st) == [NoCall EXCEPT !.op = "getattr", !.path = path, !.repo_stat = st]
ReaddirCall(path) == [NoCall EXCEPT !.op = "readdir", !.path = path]
OpenCall(path, flags) == [NoCall EXCEPT !.op = "open", !.path = path, !.flags = flags]
ReadCall(path, size, offset) ==
    [NoCall EXCEPT !.op = "read", !.path = path, !.size = size, !.offset = offset]

(* ------------- calls served one at a time, to completion -------------- *)

\* GitFS opens whatever repository it is pointed at: any reference table.
\* A handler runs to completion on the table as it is; its outcome stays in
\* call and result until it is handed back (Reply), and the repository
\* changes only between two calls.

Init ==
    /\ ref_table \in RefTables
    /\ call = NoCall
    /\ result = NoResult
    /\ reads = <<>>
    /\ history = <<>>
    /\ found = NoFind

Getattr ==
    /\ call.op = "none"
    /\ \E path \in Paths, st \in HostStats :
         /\ call' = GetattrCall(path, st)
         /\ result' = getattr(path, st, ref_table, ref_table, ref_table)
    /\ UNCHANGED <<ref_table, reads, history, found>>

Readdir ==
    /\ call.op = "none"
    /\ \E path \in Paths :
         /\ call' = ReaddirCall(path)
         /\ result' \in readdir(path, ref_table, ref_table)
    /\ UNCHANGED <<ref_table, reads, history, found>>

Open ==
    /\ call.op = "none"
    /\ \E path \in Paths, flags \in OpenFlags :
         /\ call' = OpenCall(path, flags)
         /\ result' = open(path, flags)
    /\ UNCHANGED <<ref_table, reads, history, found>>

Read ==
    /\ call.op = "none"
    /\ \E path \in Paths, size \in Sizes, offset \in Offsets :
         /\ call' = ReadCall(path, size, offset)
         /\ result' = read(path, size, offset, ref_table, ref_table)
    /\ UNCHANGED <<ref_table, reads, history, found>>

\* The outcome goes back to the dispatcher; the next call can be served.
Reply ==
    /\ call.op # "none"
    /\ result.kind \in {"return", "raise"}
    /\ call' = NoCall
    /\ result' = NoResult
    /\ reads' = <<>>
    /\ history' = <<>>
    /\ UNCHANGED <<ref_table, found>>

\* The table with name pointing at oid.
WithRef(table, name, oid) ==
    [n \in DOMAIN table \cup {name} |-> IF n = name THEN oid ELSE table[n]]

\* The table without name.
WithoutRef(table, name) == [n \in DOMAIN table \ {name} |-> table[n]]

\* The repository creates or moves a reference between two calls.
UpdateReference ==
    /\ call.op = "none"
    /\ \E name \in FullRefNames, oid \in CommitIds :
         /\ WithRef(ref_table, name, oid) # ref_table
         /\ Cardinality(DOMAIN ref_table \cup {name}) <= MaxRefs
         /\ ref_table' = WithRef(ref_table, name, oid)
    /\ UNCHANGED <<call, result, reads, history, found>>

\* The repository deletes a reference between two calls.
DeleteReference ==
    /\ call.op = "none"
    /\ \E name \in DOMAIN ref_table : ref_table' = WithoutRef(ref_table, name)
    /\ UNCHANGED <<call, result, reads, history, found>>

Next ==
    \/ Getattr
    \/ Readdir
    \/ Open
    \/ Read
    \/ Reply
    \/ UpdateReference
    \/ DeleteReference

Spec == Init /\ [][Next]_vars

(* --------------------- git_tree_find on its own ----------------------- *)

Find ==
    /\ \E tree \in TreeIds, path \in RelPaths :
         found' = [tree |-> tree, path |-> path,
                   outcome |-> git_tree_find(Objects[tree], path)]
    /\ UNCHANGED <<ref_table, call, result, reads, history>>

FindInit ==
    /\ ref_table = EmptyTable
    /\ call = NoCall
    /\ result = NoResult
    /\ reads = <<>>
    /\ history = <<>>
    /\ found = NoFind

FindNext == Find

FindSpec == FindInit /\ [][FindNext]_vars

(* ------------ calls running while the repository mutates -------------- *)

\* The k-th reference table the call has read (unused when it has not).
At(rds, k) == IF k <= Len(rds) THEN rds[k] ELSE EmptyTable

\* How many accesses to the references the call makes, as far as the
\* tables read so far (rds) decide: the call goes on while this exceeds
\* Len(rds).
getattr_accesses(path, rds) ==
    IF StartsWith(path, DotPrefix) \/ path = Root THEN 0
    ELSE IF Len(rds) = 0 THEN 1
    ELSE IF get_child_refs(path, rds[1]) # <<>> THEN 1
    ELSE IF Len(rds) = 1 THEN 2
    ELSE IF get_parent_ref(path, rds[2]).kind = "raise" THEN 2
    ELSE 3

readdir_accesses(path, rds) ==
    IF Len(rds) = 0 THEN 1
    ELSE LET refs_ == refs(rds[1]) IN
         IF path = Root THEN 1
         ELSE IF SelectSeq(refs_, LAMBDA r : StartsWith(r, path \o Slash)) # <<>> THEN 1
         ELSE IF path \in Range(refs_) THEN 2
         ELSE IF Len(SelectSeq(refs_, LAMBDA r : StartsWith(path, r \o Slash))) = 1 THEN 2
         ELSE 1

read_accesses(path, rds) ==
    IF StartsWith(path, DotPrefix) THEN 0
    ELSE IF Len(rds) = 0 THEN 1
    ELSE IF Len(SelectSeq(refs(rds[1]), LAMBDA r : StartsWith(path, r \o Slash))) = 1 THEN 2
    ELSE 1

Accesses(c, rds) ==
    CASE c.op = "getattr" -> getattr_accesses(c.path, rds)
      [] c.op = "readdir" -> readdir_accesses(c.path, rds)
      [] c.op = "read" -> read_accesses(c.path, rds)
      [] OTHER -> 0

\* The outcomes of call c given the tables its accesses found.
Outcomes(c, rds) ==
    CASE c.op = "getattr" ->
            {getattr(c.path, c.repo_stat, At(rds, 1), At(rds, 2), At(rds, 3))}
      [] c.op = "readdir" -> readdir(c.path, At(rds, 1), At(rds, 2))
      [] c.op = "read" -> {read(c.path, c.size, c.offset, At(rds, 1), At(rds, 2))}
      [] OTHER -> {open(c.path, c.flags)}

\* The calls dispatched while the repository mutates.
ConcCalls ==
    {GetattrCall(path, st) : path \in Paths, st \in HostStats}
        \cup {ReaddirCall(path) : path \in Paths}
        \cup {ReadCall(path, MaxSize, 0) : path \in Paths}

\* The dispatcher hands a call to its handler, which runs up to its first
\* access to the references.
Dispatch ==
    /\ call.op = "none"
    /\ \E c \in ConcCalls :
         /\ call' = c
         /\ IF Accesses(c, <<>>) = 0
              THEN result' \in Outcomes(c, <<>>)
              ELSE result' = Pending
    /\ reads' = <<>>
    /\ history' = <<ref_table>>
    /\ UNCHANGED <<ref_table, found>>

\* The handler reads the references (self.refs, lookup_reference) and runs
\* on to its next access, or to its end.
Access ==
    /\ result.kind = "pending"
    /\ reads' = Append(reads, ref_table)
    /\ IF Accesses(call, reads') = Len(reads')
         THEN result' \in Outcomes(call, reads')
         ELSE result' = Pending
    /\ UNCHANGED <<ref_table, call, history, found>>

\* Another process creates or moves a reference while the call runs.
ConcUpdateReference ==
    /\ result.kind = "pending"
    /\ Len(history) <= MaxMutations
    /\ \E name \in FullRefNames, oid \in CommitIds :
         /\ WithRef(ref_table, name, oid) # ref_table
         /\ Cardinality(DOMAIN ref_table \cup {name}) <= MaxRefs
         /\ ref_table' = WithRef(ref_table, name, oid)
    /\ history' = Append(history, ref_table')
    /\ UNCHANGED <<call, result, reads, found>>

\* Another process deletes a reference while the call runs.
ConcDeleteReference ==
    /\ result.kind = "pending"
    /\ Len(history) <= MaxMutations
    /\ \E name \in DOMAIN ref_table : ref_table' = WithoutRef(ref_table, name)
    /\ history' = Append(history, ref_table')
    /\ UNCHANGED <<call, result, reads, found>>

ConcNext ==
    \/ Dispatch
    \/ Access
    \/ Reply
    \/ ConcUpdateReference
    \/ ConcDeleteReference

ConcSpec == Init /\ [][ConcNext]_vars

(* ============================ properties ============================== *)

\* The properties speak of paths and reference names as sequences of
\* segments, and resolve a path in a tree by descending one segment at a
\* time, independently of the string operations the handlers use.

Done == result.kind \in {"return", "raise"}

Fails(errno) ==
    /\ result.kind = "raise"
    /\ result.exc = "FuseOSError"
    /\ result.errno = errno

\* The segments of each path of the universe.
SegsTable ==
    [p \in Paths |->
        IF p = Root THEN <<>>
        ELSE CHOOSE ss \in SeqsUpTo(Segs, MaxDepth) : JoinSegs(ss) = p]

SegsOf(p) == SegsTable[p]

RelSegsTable ==
    [rel \in RelPaths |->
        CHOOSE ss \in SeqsUpTo(Segs, MaxRelDepth) : SliceFrom(JoinSegs(ss), 1) = rel]

RelSegsOf(rel) == RelSegsTable[rel]

\* The reference names (below refs/) the repository holds now.
CurrentRefs == {n \in RefNames : RefsWord \o n \in DOMAIN ref_table}

\* a is a directory-prefix of b: b continues a by at least one segment.
DirPrefix(a, b) == Len(a) < Len(b) /\ SubSeq(b, 1, Len(a)) = a

IsNamespaceDir(p) == \E r \in CurrentRefs : DirPrefix(SegsOf(p), SegsOf(r))
IsRefDir(p) == p \in CurrentRefs
EnclosingRefs(p) == {r \in CurrentRefs : DirPrefix(SegsOf(r), SegsOf(p))}

ClassifiesNotFound(p) ==
    /\ p # Root
    /\ ~IsNamespaceDir(p)
    /\ ~IsRefDir(p)
    /\ EnclosingRefs(p) = {}

Absent == [present |-> FALSE]

\* The entry reached from tree oid by the segments segs, or Absent.
RECURSIVE Lookup(_, _)
Lookup(oid, segs) ==
    LET obj == Objects[oid] IN
    IF obj.type # "tree" THEN Absent
    ELSE LET hits == {i \in DOMAIN obj.entries : obj.entries[i].name = Head(segs)} IN
         IF hits = {} THEN Absent
         ELSE LET e == obj.entries[CHOOSE i \in hits : TRUE] IN
              IF Len(segs) = 1 THEN [present |-> TRUE, entry |-> e]
              ELSE Lookup(e.oid, Tail(segs))

\* What path p, inside exactly one reference, resolves to in that
\* reference's tree.
Resolved(p) ==
    LET r == CHOOSE r \in EnclosingRefs(p) : TRUE
        commit == Objects[ref_table[RefsWord \o r]]
    IN  Lookup(commit.tree, SubSeq(SegsOf(p), Len(SegsOf(r)) + 1, Len(SegsOf(p))))

InOneRef(p) == Cardinality(EnclosingRefs(p)) = 1

ResolvesToBlob(p) ==
    /\ InOneRef(p)
    /\ Resolved(p).present
    /\ Objects[Resolved(p).entry.oid].type = "blob"

ResolvesToDir(p) ==
    /\ InOneRef(p)
    /\ Resolved(p).present
    /\ Objects[Resolved(p).entry.oid].type = "tree"

\* C1: when reference r1 is a directory-prefix of another reference r2, each
\* of getattr, readdir and read on a path under r2 is rejected with the
\* distinct ambiguity error (GitFSError), never NotFound and never data.
C1_AmbiguousRejected ==
    (Done /\ call.op \in {"getattr", "readdir", "read"}) =>
        \A r1, r2 \in CurrentRefs :
            ( /\ r1 # r2
              /\ DirPrefix(SegsOf(r1), SegsOf(r2))
              /\ DirPrefix(SegsOf(r2), SegsOf(call.path)) )
            => (result.kind = "raise" /\ result.exc = "GitFSError")

\* C2: open with a write-only or read-write access mode fails with
\* PermissionDenied (EACCES) and yields no handle; the handle 0 is yielded
\* only for read-only requests.
C2_OpenReadOnlyOnly ==
    (Done /\ call.op = "open") =>
        /\ (call.flags % 4 # O_RDONLY) => Fails("EACCES")
        /\ (result.kind = "return" /\ result.type = "int")
               => call.flags % 4 = O_RDONLY

\* C3: on a path whose first segment begins with a dot, each of getattr,
\* readdir, open and read fails with NotFound as an error, whatever the
\* references are.
C3_DotPathNotFound ==
    (Done /\ Len(call.path) >= 2 /\ call.path[1] = "/" /\ call.path[2] = ".")
        => Fails("ENOENT")

\* C4: read(p, size, offset) on a path inside exactly one reference that
\* resolves to a blob with content c returns exactly the bytes
\* c[offset .. min(offset + size, len(c))).
C4_ReadReturnsSlice ==
    (Done /\ call.op = "read" /\ ResolvesToBlob(call.path)) =>
        LET c == Objects[Resolved(call.path).entry.oid].data
            lo == Min(call.offset, Len(c))
            hi == Min(call.offset + call.size, Len(c))
        IN  /\ result.kind = "return"
            /\ result.type = "bytes"
            /\ Len(result.val) = hi - lo
            /\ \A i \in 1..(hi - lo) : result.val[i] = c[lo + i]

\* A read that starts inside a two-byte blob and runs past its end has
\* returned the one remaining byte.
C4_ShortReadReached ==
    /\ Done
    /\ call.op = "read"
    /\ ResolvesToBlob(call.path)
    /\ Len(Objects[Resolved(call.path).entry.oid].data) = 2
    /\ call.offset = 1
    /\ call.size = 2
    /\ result.kind = "return"
    /\ result.type = "bytes"
    /\ Len(result.val) = 1

\* C5: readdir("/") returns a sequence whose elements are exactly the first
\* segments of the current references, each once.
C5_RootListing ==
    (Done /\ call.op = "readdir" /\ call.path = Root) =>
        /\ result.kind = "return"
        /\ result.type = "list"
        /\ Range(result.val) = {SegsOf(r)[1] : r \in CurrentRefs}
        /\ \A i, j \in DOMAIN result.val : result.val[i] = result.val[j] => i = j

\* The root has been listed while two references shared their first
\* segment, and the listing has one name.
C5_SharedSegmentListed ==
    /\ Done
    /\ call.op = "readdir"
    /\ call.path = Root
    /\ Cardinality(CurrentRefs) = 2
    /\ \A r1, r2 \in CurrentRefs : SegsOf(r1)[1] = SegsOf(r2)[1]
    /\ result.kind = "return"
    /\ Len(result.val) = 1

\* Bit k (of value 2^k = b) of m is clear.
BitIsClear(m, b) == (m \div b) % 2 = 0

\* C6: every attribute record getattr returns has the three write bits
\* (0200, 0020, 0002) clear in st_mode and st_ino = 0.
C6_AttributesReadOnly ==
    (Done /\ call.op = "getattr" /\ result.kind = "return") =>
        /\ result.type = "stat"
        /\ BitIsClear(result.val.st_mode, 128)
        /\ BitIsClear(result.val.st_mode, 16)
        /\ BitIsClear(result.val.st_mode, 2)
        /\ result.val.st_ino = 0

\* getattr has answered for a file whose tree entry records a
\* group-writable mode, on a host whose repository directory is writable
\* and has a nonzero inode.
C6_WritableFileStatted ==
    /\ Done
    /\ call.op = "getattr"
    /\ ResolvesToBlob(call.path)
    /\ ~BitIsClear(Resolved(call.path).entry.filemode, 16)
    /\ ~BitIsClear(call.repo_stat.st_mode, 2)
    /\ call.repo_stat.st_ino # 0
    /\ result.kind = "return"
    /\ result.val.st_size = Len(Objects[Resolved(call.path).entry.oid].data)

\* C7: getattr(p) fails with NotFound for every path p that classifies as
\* NotFound (not the root, no reference below it at a segment boundary,
\* equal to no reference, inside no reference), and returns directory
\* attributes only for the root, a namespace directory, a reference, or a
\* path resolving to a directory entry inside one reference.
C7_GetattrNotFound ==
    (Done /\ call.op = "getattr") =>
        /\ ClassifiesNotFound(call.path) => Fails("ENOENT")
        /\ ( /\ result.kind = "return"
             /\ ~BitIsClear(result.val.st_mode, S_IFDIR) )
           => \/ call.path = Root
              \/ IsNamespaceDir(call.path)
              \/ IsRefDir(call.path)
              \/ ResolvesToDir(call.path)

\* C8: readdir(p) fails with NotFound when p classifies as NotFound or
\* resolves to a file inside a reference, and returns a listing only for
\* the root, a namespace directory, a reference, or a path resolving to a
\* directory entry inside one reference.
C8_ReaddirNotFound ==
    (Done /\ call.op = "readdir") =>
        /\ (ClassifiesNotFound(call.path) \/ ResolvesToBlob(call.path))
               => Fails("ENOENT")
        /\ result.kind = "return"
           => \/ call.path = Root
              \/ IsNamespaceDir(call.path)
              \/ IsRefDir(call.path)
              \/ ResolvesToDir(call.path)

\* C9: git_tree_find never raises; its result is the entry the final
\* segment names in the tree the other segments lead to, and absent (None)
\* when a segment is missing or a non-final segment is a blob, at any depth.
C9_FindNeverRaises ==
    (found.tree # "none") =>
        /\ found.outcome.kind = "return"
        /\ LET expected == Lookup(found.tree, RelSegsOf(found.path)) IN
           IF expected.present
           THEN found.outcome.type = "entry" /\ found.outcome.val = expected.entry
           ELSE found.outcome.type = "None"

\* C10: the outcome of a getattr, readdir or read call is an outcome the
\* operation gives on one of the reference tables that existed while the
\* call ran, read as a single snapshot.
C10_SingleSnapshot ==
    (Done /\ call.op \in {"getattr", "readdir", "read"}) =>
        \E t \in Range(history) : result \in Outcomes(call, <<t, t, t>>)

=============================================================================
